---- MODULE Spec2Model ----
(***************************************************************************)
(* A model of gh_sync_issues.py: the Issue dataclass with its dirty list,  *)
(* comp_newline, and the pull and push commands run against a remote issue *)
(* tracker and a local YAML file.                                          *)
(*                                                                         *)
(* Values.  A Python value is a record [t, s, n]: t is its type tag        *)
(* ("absent" for a key that a mapping does not hold, "none" for None,      *)
(* "str", "list", "int"), s the characters of a string or the entries of   *)
(* a list, n the integer.  A string is the sequence of its characters;     *)
(* "CR" and "LF" stand for "\r" and "\n".                                  *)
(***************************************************************************)
EXTENDS Integers, Sequences, FiniteSets, TLC

VARIABLES file, remote, run, prev, cmp, tracker

vars == <<file, remote, run, prev, cmp, tracker>>

\* ------------------------------------------------------------------ bounds

\* The longest file (number of records) a run starts from.
MaxRecords == 2

\* The largest number of issues the remote repository holds.
MaxIssues == 3

\* The longest string (in characters) given to comp_newline on its own.
MaxLen == 3

\* The largest number of update calls made on one Issue on its own.
MaxUpdates == 2

\* ------------------------------------------------------------------ values

Absent == [t |-> "absent", s |-> <<>>, n |-> 0]

None == [t |-> "none", s |-> <<>>, n |-> 0]

StrVal(cs) == [t |-> "str", s |-> cs, n |-> 0]

ListVal(xs) == [t |-> "list", s |-> xs, n |-> 0]

IntVal(k) == [t |-> "int", s |-> <<>>, n |-> k]

Range(q) == {q[j] : j \in 1..Len(q)}

Min2(a, b) == IF a <= b THEN a ELSE b

\* ------------------------------------------------------------ comp_newline

\* Every carriage return is dropped, whatever follows it.
replace_StripCR(cs) == SelectSeq(cs, LAMBDA c : c # "CR")

\* str.replace("\r\n", "\n"): left to right, non-overlapping.
RECURSIVE replace(_)
replace(cs) ==
    IF Len(cs) = 0 THEN <<>>
    ELSE IF Len(cs) >= 2 /\ cs[1] = "CR" /\ cs[2] = "LF"
         THEN <<"LF">> \o replace(SubSeq(cs, 3, Len(cs)))
         ELSE <<cs[1]>> \o replace(Tail(cs))

\* The two isinstance(x, str) branches: only a string is rewritten.
normalise(v) == IF v.t = "str" THEN StrVal(replace(v.s)) ELSE v

PlainEqual(a, b) == a = b

comp_newline(a, b) == normalise(a) = normalise(b)

\* ------------------------------------------------------------------- Issue

\* dataclasses.fields(Issue), in declaration order.
field_names == <<"number", "title", "body", "assignees", "labels">>

\* The keys a record of the file may hold, in the order the mapping holds
\* them: the five fields and one key the dataclass does not know.
FileKeys == <<"number", "title", "body", "assignees", "labels", "milestone">>

\* Issue(number=.., title=.., ...) followed by __post_init__.
Issue(number, title, body, assignees, labels) ==
    [number |-> number, title |-> title, body |-> body,
     assignees |-> assignees, labels |-> labels, dirty |-> <<>>]

\* Issue.from_github: the issue's number, title, body, the assignees'
\* logins and the labels' names.
from_github(gh_issue, number) ==
    Issue(IntVal(number), gh_issue.title, gh_issue.body,
          gh_issue.assignees, gh_issue.labels)

\* Issue.to_dict: the five fields; with skip_missing the None ones are
\* dropped.  (yaml=True only wraps the values for the YAML writer.)
to_dict(self, skip_missing) ==
    [k \in Range(field_names) |->
        IF skip_missing /\ self[k].t = "none" THEN Absent ELSE self[k]]

\* Issue._dirty_dict
_dirty_dict(self) ==
    [k \in Range(field_names) |->
        IF k \in Range(self.dirty) THEN to_dict(self, FALSE)[k] ELSE Absent]

\* One pass of the loop of Issue.update over kwargs.items(), from the
\* j-th key on.
RECURSIVE updateFrom(_, _, _)
updateFrom(self, kwargs, j) ==
    IF j > Len(FileKeys) THEN self
    ELSE LET k == FileKeys[j] IN
         IF kwargs[k].t = "absent" THEN updateFrom(self, kwargs, j + 1)
         ELSE IF k \notin Range(field_names)
              THEN updateFrom(self, kwargs, j + 1)
         ELSE IF comp_newline(self[k], kwargs[k])
              THEN updateFrom(self, kwargs, j + 1)
         ELSE updateFrom([self EXCEPT ![k] = kwargs[k],
                                      !.dirty = Append(@, k)],
                         kwargs, j + 1)

\* Issue.update without its setattr: the field is marked and keeps its value.
RECURSIVE updateNoSetFrom(_, _, _)
updateNoSetFrom(self, kwargs, j) ==
    IF j > Len(FileKeys) THEN self
    ELSE LET k == FileKeys[j] IN
         IF \/ kwargs[k].t = "absent"
            \/ k \notin Range(field_names)
            \/ comp_newline(self[k], kwargs[k])
         THEN updateNoSetFrom(self, kwargs, j + 1)
         ELSE updateNoSetFrom([self EXCEPT !.dirty = Append(@, k)],
                              kwargs, j + 1)

update_NoSet(self, kwargs) == updateNoSetFrom(self, kwargs, 1)

\* Issue.update without its comparison: every field given is marked.
RECURSIVE updateAlwaysFrom(_, _, _)
updateAlwaysFrom(self, kwargs, j) ==
    IF j > Len(FileKeys) THEN self
    ELSE LET k == FileKeys[j] IN
         IF kwargs[k].t = "absent" \/ k \notin Range(field_names)
         THEN updateAlwaysFrom(self, kwargs, j + 1)
         ELSE updateAlwaysFrom([self EXCEPT ![k] = kwargs[k],
                                            !.dirty = Append(@, k)],
                               kwargs, j + 1)

update_AlwaysDirty(self, kwargs) == updateAlwaysFrom(self, kwargs, 1)

\* Issue.update with a set for dirty: a name it holds is not added again.
RECURSIVE updateMarkOnceFrom(_, _, _)
updateMarkOnceFrom(self, kwargs, j) ==
    IF j > Len(FileKeys) THEN self
    ELSE LET k == FileKeys[j] IN
         IF \/ kwargs[k].t = "absent"
            \/ k \notin Range(field_names)
            \/ comp_newline(self[k], kwargs[k])
         THEN updateMarkOnceFrom(self, kwargs, j + 1)
         ELSE updateMarkOnceFrom(
                  [self EXCEPT ![k] = kwargs[k],
                               !.dirty = IF k \in Range(@) THEN @
                                         ELSE Append(@, k)],
                  kwargs, j + 1)

update_MarkOnce(self, kwargs) == updateMarkOnceFrom(self, kwargs, 1)

\* Issue.update(**kwargs)
update(self, kwargs) == updateFrom(self, kwargs, 1)

\* def update(self, **kwargs): a keyword named self is a second value for
\* the first parameter, and the call raises TypeError.
BindsSelf(kwargs) == kwargs["self"].t # "absent"

\* ------------------------------------------------------------------ remote

\* The repository is the sequence of its issues; issue number k is the
\* k-th.  repo.get_issue(k) raises when there is no such issue.
Exists(number) == number \in 1..Len(remote)

\* gh_issue.edit(**payload) takes a string for title and body and a list
\* of strings for assignees and labels: a None argument is refused.
EditAccepts(payload) == \A k \in Range(field_names) : payload[k].t # "none"

\* gh_issue.edit(**payload): the fields given replace the issue's, the
\* others stay.
edit(gh_issue, payload) ==
    [k \in {"title", "body", "assignees", "labels"} |->
        IF payload[k].t = "absent" THEN gh_issue[k] ELSE payload[k]]

\* repo.create_issue(**fields): the fields not given take the remote's
\* defaults (no body, nobody assigned, no label).
create_issue(fields) ==
    [title     |-> fields["title"],
     body      |-> IF fields["body"].t = "absent" THEN None ELSE fields["body"],
     assignees |-> IF fields["assignees"].t = "absent" THEN ListVal(<<>>)
                   ELSE fields["assignees"],
     labels    |-> IF fields["labels"].t = "absent" THEN ListVal(<<>>)
                   ELSE fields["labels"]]

\* -------------------------------------------------------------------- push

NoPayload == [k \in Range(field_names) |-> Absent]

\* No issue was fetched.
NoIssue == [k \in {"title", "body", "assignees", "labels"} |-> Absent]

\* What a run did at one record: the action it chose (kind), the fields it
\* would send (payload), the issue number it is about, the remote issue it
\* fetched (seen), and whether the remote call was made and how it ended
\* (call: "none", "ok" or "failed").
Entry(kind, payload, number, seen, call) ==
    [kind |-> kind, payload |-> payload, number |-> number, seen |-> seen,
     call |-> call]

NoRun ==
    [kind |-> "none", status |-> "none", dry_run |-> FALSE,
     update_input |-> FALSE, issues |-> <<>>, i |-> 1,
     new_issues_added |-> FALSE, log |-> <<>>,
     file0 |-> <<>>, remote0 |-> <<>>]

\* What the next run remembers of the one before it.
Summary(r) ==
    [kind |-> r.kind, status |-> r.status, dry_run |-> r.dry_run,
     update_input |-> r.update_input, log |-> r.log,
     file0 |-> r.file0, remote0 |-> r.remote0]

Running == run.status = "running"

\* The loop walks the list from its end.
issue_Reversed == run.issues[Len(run.issues) + 1 - run.i]

\* The record the loop is at.
issue == run.issues[run.i]

\* "number" in issue
HasNumber(rec) == rec["number"].t # "absent"

\* Issue(**issue) raises TypeError on a keyword that is no field.
ConstructorAccepts(rec) == rec["milestone"].t = "absent"

\* Issue(**issue): the keys the record lacks default to None.
new_issue(rec) ==
    LET get(k) == IF rec[k].t = "absent" THEN None ELSE rec[k]
    IN  Issue(get("number"), get("title"), get("body"),
              get("assignees"), get("labels"))

\* The title check made in a dry run only.
TitleMissing_DryOnly(rec) == run.dry_run /\ new_issue(rec).title.t = "none"

\* new_issue.title is None
TitleMissing(rec) == new_issue(rec).title.t = "none"

\* existing_issue after existing_issue.update(**issue)
existing_issue(rec) ==
    update(from_github(remote[rec["number"].n], rec["number"].n), rec)

\* The dry_run flag ignored.
Applies_Always(r) == TRUE

\* if not dry_run: the remote call is made.
Applies(r) == ~r.dry_run

\* if new_issues_added: if update_input: the file is rewritten.
RewriteWanted(r) == r.new_issues_added /\ r.update_input

\* The loop has run out of records.
LoopDone(r) == r.i > Len(r.issues)

\* The run after the loop body for one record: the code after the loop
\* runs as soon as the last record is done.
Settle(r) == IF LoopDone(r) THEN [r EXCEPT !.status = "ok"] ELSE r

\* The file rewritten from Issue objects: every field written, a missing
\* one as null, and no other key.
FileAfter_Normalised(r) ==
    IF LoopDone(r) /\ RewriteWanted(r)
    THEN [j \in 1..Len(r.issues) |->
             [k \in Range(FileKeys) |->
                 IF k = "milestone" THEN Absent
                 ELSE to_dict(new_issue(r.issues[j]), FALSE)[k]]]
    ELSE file

\* yaml.dump(issues, fh) after the loop, when the rewrite is wanted.
FileAfter(r) == IF LoopDone(r) /\ RewriteWanted(r) THEN r.issues ELSE file

Logged(r, e) == [r EXCEPT !.log = Append(@, e)]

\* The loop stays at the record it has just handled.
Next1_Stay(r) == r

\* The loop moves on to the next record.
Next1(r) == [r EXCEPT !.i = @ + 1]

\* The error is swallowed and the loop goes on with the next record.
Abort_Continue(r, status) ==
    IF r.i + 1 > Len(r.issues) THEN [r EXCEPT !.i = @ + 1, !.status = "ok"]
    ELSE [r EXCEPT !.i = @ + 1]

\* An exception leaves push: the run ends with that status.
Abort(r, status) == [r EXCEPT !.status = status]

\* The number recorded is the one before the one the remote assigned.
insert_number_Stale(rec, issue_number) ==
    [rec EXCEPT !["number"] = IntVal(issue_number - 1)]

\* issue.insert(0, "number", issue_number)
insert_number(rec, issue_number) ==
    [rec EXCEPT !["number"] = IntVal(issue_number)]

\* The records of f that a push would create.
NumCreates(f) == Cardinality({j \in 1..Len(f) : ~HasNumber(f[j])})

\* push: the file is loaded and the loop starts.
StartPush(dry_run, update_input) ==
    /\ ~Running
    /\ Len(remote) + NumCreates(file) <= MaxIssues
    /\ LET r == [kind |-> "push", status |-> "running", dry_run |-> dry_run,
                 update_input |-> update_input, issues |-> file, i |-> 1,
                 new_issues_added |-> FALSE, log |-> <<>>,
                 file0 |-> file, remote0 |-> remote]
       IN  run' = Settle(r)
    /\ prev' = Summary(run)
    /\ UNCHANGED <<file, remote>>
    /\ UNCHANGED <<cmp, tracker>>

\* repo.get_issue raises: there is no such issue.
PushLookupError ==
    /\ Running /\ HasNumber(issue) /\ ~Exists(issue["number"].n)
    /\ run' = Abort(Logged(run, Entry("lookup_error", NoPayload,
                                      issue["number"].n, NoIssue, "none")),
                    "lookup_error")
    /\ UNCHANGED <<file, remote, prev>>
    /\ UNCHANGED <<cmp, tracker>>

\* if not existing_issue.dirty: continue
PushNoop ==
    /\ Running /\ HasNumber(issue) /\ Exists(issue["number"].n)
    /\ existing_issue(issue).dirty = <<>>
    /\ LET r == Next1(Logged(run, Entry("noop", NoPayload,
                                        issue["number"].n,
                                        remote[issue["number"].n], "none")))
       IN  /\ run' = Settle(r)
           /\ file' = FileAfter(r)
    /\ UNCHANGED <<remote, prev>>
    /\ UNCHANGED <<cmp, tracker>>

\* The update path with a dirty field.
PushUpdate ==
    /\ Running /\ HasNumber(issue) /\ Exists(issue["number"].n)
    /\ existing_issue(issue).dirty # <<>>
    /\ LET number  == issue["number"].n
           payload == _dirty_dict(existing_issue(issue))
           e(call) == Entry("update", payload, number, remote[number], call)
       IN  \/ /\ ~Applies(run)
              /\ LET r == Next1(Logged(run, e("none")))
                 IN  run' = Settle(r) /\ file' = FileAfter(r)
              /\ UNCHANGED remote
           \/ /\ Applies(run) /\ EditAccepts(payload)
              /\ remote' = [remote EXCEPT ![number] = edit(@, payload)]
              /\ LET r == Next1(Logged(run, e("ok")))
                 IN  run' = Settle(r) /\ file' = FileAfter(r)
           \/ /\ Applies(run)
              /\ run' = Abort(Logged(run, e("failed")), "remote_failure")
              /\ UNCHANGED <<file, remote>>
    /\ UNCHANGED prev
    /\ UNCHANGED <<cmp, tracker>>

\* Issue(**issue) raises on the key it does not know.
PushTypeError ==
    /\ Running /\ ~HasNumber(issue) /\ ~ConstructorAccepts(issue)
    /\ run' = Abort(Logged(run, Entry("type_error", NoPayload, 0, NoIssue, "none")),
                    "type_error")
    /\ UNCHANGED <<file, remote, prev>>
    /\ UNCHANGED <<cmp, tracker>>

\* raise click.UsageError("All issues must have a title.")
PushUsageError ==
    /\ Running /\ ~HasNumber(issue) /\ ConstructorAccepts(issue)
    /\ TitleMissing(issue)
    /\ run' = Abort(Logged(run, Entry("usage_error", NoPayload, 0, NoIssue, "none")),
                    "usage_error")
    /\ UNCHANGED <<file, remote, prev>>
    /\ UNCHANGED <<cmp, tracker>>

\* The creation path.
PushCreate ==
    /\ Running /\ ~HasNumber(issue) /\ ConstructorAccepts(issue)
    /\ ~TitleMissing(issue)
    /\ LET payload == to_dict(new_issue(issue), TRUE)
           e(number, call) == Entry("create", payload, number, NoIssue, call)
           issue_number == Len(remote) + 1
       IN  \/ /\ ~Applies(run)
              /\ LET r == Next1(Logged(run, e(0, "none")))
                 IN  run' = Settle(r) /\ file' = FileAfter(r)
              /\ UNCHANGED remote
           \/ /\ Applies(run)
              /\ remote' = Append(remote, create_issue(payload))
              /\ LET r == Next1(Logged(
                              [run EXCEPT
                                  !.issues[run.i] = insert_number(@, issue_number),
                                  !.new_issues_added = TRUE],
                              e(issue_number, "ok")))
                 IN  run' = Settle(r) /\ file' = FileAfter(r)
           \/ /\ Applies(run)
              /\ run' = Abort(Logged(run, e(0, "failed")), "remote_failure")
              /\ UNCHANGED <<file, remote>>
    /\ UNCHANGED prev
    /\ UNCHANGED <<cmp, tracker>>

\* -------------------------------------------------------------------- pull

\* The record written with skip_missing: a None field is left out.
yaml_record_SkipMissing(self) ==
    [k \in Range(FileKeys) |->
        IF k = "milestone" THEN Absent ELSE to_dict(self, TRUE)[k]]

\* The record written with an empty string for a None body.
yaml_record_NullAsEmpty(self) ==
    [k \in Range(FileKeys) |->
        IF k = "milestone" THEN Absent
        ELSE IF k = "body" /\ self[k].t = "none" THEN StrVal(<<>>)
        ELSE to_dict(self, FALSE)[k]]

\* One record of Issue.list_to_yaml: to_dict() keeps every field, a None
\* one too.
yaml_record(self) ==
    [k \in Range(FileKeys) |->
        IF k = "milestone" THEN Absent ELSE to_dict(self, FALSE)[k]]

\* pull: the file becomes the list of the remote's issues.
Pull ==
    /\ ~Running
    /\ file' = [k \in 1..Len(remote) |-> yaml_record(from_github(remote[k], k))]
    /\ run' = [NoRun EXCEPT !.kind = "pull", !.status = "ok",
                            !.file0 = file, !.remote0 = remote]
    /\ prev' = Summary(run)
    /\ UNCHANGED remote
    /\ UNCHANGED <<cmp, tracker>>

\* -------------------------------------------------------------------- init

Titles == {StrVal(<<"A">>), StrVal(<<"B">>)}

BodyLF == StrVal(<<"x", "LF", "y">>)

BodyCRLF == StrVal(<<"x", "CR", "LF", "y">>)

Numbers == {IntVal(1), IntVal(2)}

SeqsUpTo(S, n) == UNION {[1..m -> S] : m \in 0..n}

\* No call of comp_newline on its own is under way.
NoCmp == [pc |-> "idle", args |-> <<None, None>>, a |-> None, b |-> None,
          ret |-> FALSE]

\* No Issue is under test on its own.
NoTracker == [trace |-> <<>>, calls |-> <<>>, raised |-> <<>>]

\* Files of several records: each record holds a number or not and a
\* title or not.
ThinRecords ==
    [number : {Absent} \cup Numbers, title : {Absent} \cup Titles,
     body : {Absent}, assignees : {Absent}, labels : {Absent},
     milestone : {Absent}]

ThinIssues ==
    [title : Titles, body : {None},
     assignees : {ListVal(<<>>)}, labels : {ListVal(<<>>)}]

\* Files of one record, with every kind of value in every field.
RichRecords ==
    [number    : {Absent} \cup Numbers,
     title     : {Absent, None} \cup Titles,
     body      : {Absent, None, BodyLF, BodyCRLF},
     assignees : {Absent, ListVal(<<"ann">>)},
     labels    : {Absent, ListVal(<<"bug", "ui">>), ListVal(<<"ui", "bug">>)},
     milestone : {Absent, StrVal(<<"m">>)}]

RichIssues ==
    [title     : Titles,
     body      : {None, BodyLF, BodyCRLF},
     assignees : {ListVal(<<>>), ListVal(<<"ann">>)},
     labels    : {ListVal(<<>>), ListVal(<<"bug", "ui">>)}]

Init ==
    /\ \/ /\ file \in SeqsUpTo(ThinRecords, MaxRecords)
          /\ remote \in SeqsUpTo(ThinIssues, 2)
       \/ /\ file \in [1..1 -> RichRecords]
          /\ remote \in SeqsUpTo(RichIssues, 1)
    /\ run = NoRun
    /\ prev = Summary(NoRun)
    /\ cmp = NoCmp
    /\ tracker = NoTracker

Next ==
    \/ \E dry_run \in BOOLEAN, update_input \in BOOLEAN :
          StartPush(dry_run, update_input)
    \/ PushLookupError
    \/ PushNoop
    \/ PushUpdate
    \/ PushTypeError
    \/ PushUsageError
    \/ PushCreate
    \/ Pull

Spec == Init /\ [][Next]_vars

\* ------------------------------------------------- Issue.update on its own

\* The Issue objects update is called on, as from_github builds them.
TrackerIssues ==
    {Issue(IntVal(1), t, b, None, None) : t \in Titles, b \in {None, BodyCRLF}}

\* The mappings passed as **kwargs: recognised fields, a key the dataclass
\* does not know, and the key self.
TrackerKwargs ==
    [number : {Absent}, title : {Absent} \cup Titles,
     body : {Absent, BodyLF, BodyCRLF}, assignees : {Absent},
     labels : {Absent}, milestone : {Absent, StrVal(<<"M">>)},
     self : {Absent, StrVal(<<"S">>)}]

\* The Issue as it is now: the last of the trace.
Self == tracker.trace[Len(tracker.trace)]

\* An Issue has been built, and no update call made on it.
InitUpdate ==
    /\ file = <<>> /\ remote = <<>>
    /\ run = NoRun /\ prev = Summary(NoRun)
    /\ cmp = NoCmp
    /\ \E self0 \in TrackerIssues :
          tracker = [trace |-> <<self0>>, calls |-> <<>>, raised |-> <<>>]

\* self.update(**kwargs) returns.
UpdateCall(kwargs) ==
    /\ tracker.trace # <<>> /\ Len(tracker.calls) < MaxUpdates
    /\ ~BindsSelf(kwargs)
    /\ tracker' = [trace  |-> Append(tracker.trace, update(Self, kwargs)),
                   calls  |-> Append(tracker.calls, kwargs),
                   raised |-> Append(tracker.raised, FALSE)]
    /\ UNCHANGED <<file, remote, run, prev, cmp>>

\* self.update(**kwargs) raises TypeError before its body runs.
UpdateTypeError(kwargs) ==
    /\ tracker.trace # <<>> /\ Len(tracker.calls) < MaxUpdates
    /\ BindsSelf(kwargs)
    /\ tracker' = [trace  |-> Append(tracker.trace, Self),
                   calls  |-> Append(tracker.calls, kwargs),
                   raised |-> Append(tracker.raised, TRUE)]
    /\ UNCHANGED <<file, remote, run, prev, cmp>>

NextUpdate ==
    \/ \E kwargs \in TrackerKwargs : UpdateCall(kwargs)
    \/ \E kwargs \in TrackerKwargs : UpdateTypeError(kwargs)

SpecUpdate == InitUpdate /\ [][NextUpdate]_vars

\* ------------------------------------------------- comp_newline on its own

Chars == {"a", "CR", "LF"}

\* The values comp_newline is given: strings of up to MaxLen characters,
\* None, a number and lists.
CompInputs ==
    {StrVal(cs) : cs \in SeqsUpTo(Chars, MaxLen)}
        \cup {None, IntVal(1), ListVal(<<>>), ListVal(<<"bug", "ui">>),
              ListVal(<<"ui", "bug">>)}

\* comp_newline(x, y) is called: its names a and b are bound to the
\* caller's values.
InitComp ==
    /\ file = <<>> /\ remote = <<>>
    /\ run = NoRun /\ prev = Summary(NoRun)
    /\ tracker = NoTracker
    /\ \E x, y \in CompInputs :
          cmp = [pc |-> "called", args |-> <<x, y>>, a |-> x, b |-> y,
                 ret |-> FALSE]

\* The body of comp_newline: a and b are bound anew to the rewritten
\* strings, and a == b is returned.
Compare ==
    /\ cmp.pc = "called"
    /\ cmp' = [cmp EXCEPT !.pc = "done",
                          !.a = normalise(@),
                          !.b = normalise(@),
                          !.ret = comp_newline(cmp.a, cmp.b)]
    /\ UNCHANGED <<file, remote, run, prev, tracker>>

NextComp == Compare

SpecComp == InitComp /\ [][NextComp]_vars

\* ------------------------------------------------------------------ claims

PushRun == run.kind = "push"

Errors == {"usage_error", "lookup_error", "type_error", "remote_failure"}

\* The fields an entry would send.
DirtySet(e) == {k \in Range(field_names) : e.payload[k].t # "absent"}

\* The classification of an entry: its action and its dirty set.
Class(e) == <<e.kind, DirtySet(e)>>

\* A creation candidate without a title.
Untitled(rec) == ~HasNumber(rec) /\ rec["title"].t \in {"absent", "none"}

AllNumbered(f) == \A j \in 1..Len(f) : HasNumber(f[j])

DistinctNumbers(f) ==
    \A a, b \in 1..Len(f) :
        (a # b /\ HasNumber(f[a]) /\ HasNumber(f[b]))
            => f[a]["number"] # f[b]["number"]

\* The run before this one was a push from the files and the remote this
\* one started from.
SameStart == prev.file0 = run.file0 /\ prev.remote0 = run.remote0

\* Field k of the record differs from the fetched issue's, newlines
\* normalised.
Differs(rec, seen, k) ==
    /\ rec[k].t # "absent"
    /\ normalise(rec[k]) # normalise(from_github(seen, rec["number"].n)[k])

\* The remote after the calls of a log that succeeded, in order.
RECURSIVE Replay(_, _)
Replay(rem, log) ==
    IF log = <<>> THEN rem
    ELSE LET e == Head(log)
             r1 == IF e.call # "ok" THEN rem
                   ELSE IF e.kind = "create"
                        THEN Append(rem, create_issue(e.payload))
                        ELSE [rem EXCEPT ![e.number] = edit(@, e.payload)]
         IN  Replay(r1, Tail(log))

\* The run applied a creation.
Created == \E j \in 1..Len(run.log) :
               run.log[j].kind = "create" /\ run.log[j].call = "ok"

\* C1 (as claimed): in a push run over a file that holds a record with no
\* identifier and no title, no remote create or update call is made for any
\* record, the ones before the invalid record included.
C1_NoMutationWhenTitleMissing ==
    (PushRun /\ \E j \in 1..Len(run.file0) : Untitled(run.file0[j]))
        => \A j \in 1..Len(run.log) : run.log[j].call = "none"

\* C2 (as claimed): a push that follows a successful push that was no dry
\* run chooses no create and no update action.
C2_SecondPushDoesNothing ==
    (PushRun /\ prev.kind = "push" /\ prev.status = "ok" /\ ~prev.dry_run)
        => \A j \in 1..Len(run.log) : run.log[j].kind \notin {"create", "update"}

\* C2 (amended): a push that follows a successful push that was no dry run
\* chooses no create and no update action, provided every record of the
\* file pushed again holds an identifier (the first run created nothing or
\* rewrote the file) and no two of its records hold the same identifier.
C2_SecondPushDoesNothingAmended ==
    (/\ PushRun /\ prev.kind = "push" /\ prev.status = "ok" /\ ~prev.dry_run
     /\ AllNumbered(run.file0) /\ DistinctNumbers(run.file0))
        => \A j \in 1..Len(run.log) : run.log[j].kind \notin {"create", "update"}

\* The second push ended, all no-ops, after a first one that created an
\* issue and updated another.
C2_Witness ==
    /\ PushRun /\ run.status = "ok" /\ Len(run.log) = 2
    /\ prev.kind = "push" /\ prev.status = "ok" /\ ~prev.dry_run
    /\ \E j \in 1..Len(prev.log) :
          prev.log[j].kind = "create" /\ prev.log[j].call = "ok"
    /\ \E j \in 1..Len(prev.log) :
          prev.log[j].kind = "update" /\ prev.log[j].call = "ok"
    /\ AllNumbered(run.file0) /\ DistinctNumbers(run.file0)
    /\ \A j \in 1..Len(run.log) : run.log[j].kind = "noop"

\* C3: in a dry run the remote and the file stay what they were when the
\* run started, no remote create or update call is made, and no record in
\* memory gains an identifier.
C3_DryRunChangesNothing ==
    (PushRun /\ run.dry_run)
        => /\ remote = run.remote0
           /\ file = run.file0
           /\ run.issues = run.file0
           /\ \A j \in 1..Len(run.log) : run.log[j].call = "none"

\* A dry run that ended after choosing a creation and an update.
C3_Witness ==
    /\ PushRun /\ run.dry_run /\ run.status = "ok"
    /\ \E j \in 1..Len(run.log) : run.log[j].kind = "create"
    /\ \E j \in 1..Len(run.log) : run.log[j].kind = "update"

\* C4 (as claimed): a push that is no dry run, started from the file and
\* the remote a dry run has just been given, classifies each record as the
\* dry run did: the same action with the same dirty set.
C4_DryRunSameClasses ==
    (/\ PushRun /\ ~run.dry_run
     /\ prev.kind = "push" /\ prev.dry_run /\ SameStart)
        => \A j \in 1..Min2(Len(run.log), Len(prev.log)) :
              Class(run.log[j]) = Class(prev.log[j])

\* No record of the file holds the identifier of an issue this run created.
NoFreshReference ==
    \A j \in 1..Len(run.log), m \in 1..Len(run.file0) :
        ~ /\ run.log[j].kind = "create" /\ run.log[j].call = "ok"
          /\ HasNumber(run.file0[m])
          /\ run.file0[m]["number"].n = run.log[j].number

\* C4 (amended): the same, provided no two records of the file hold the
\* same identifier and no record holds the identifier of an issue the run
\* itself creates; the run that is no dry run gets as far as the dry run
\* unless a remote call fails.
C4_DryRunSameClassesAmended ==
    (/\ PushRun /\ ~run.dry_run
     /\ prev.kind = "push" /\ prev.dry_run /\ SameStart
     /\ DistinctNumbers(run.file0) /\ NoFreshReference)
        => /\ \A j \in 1..Min2(Len(run.log), Len(prev.log)) :
                 Class(run.log[j]) = Class(prev.log[j])
           /\ Len(run.log) <= Len(prev.log)
           /\ run.status \in {"ok", "usage_error", "lookup_error", "type_error"}
                 => /\ Len(run.log) = Len(prev.log)
                    /\ run.status = prev.status

\* A run that created one issue and updated another, after a dry run from
\* the same file and remote.
C4_Witness ==
    /\ PushRun /\ ~run.dry_run /\ run.status = "ok"
    /\ prev.kind = "push" /\ prev.dry_run /\ SameStart
    /\ DistinctNumbers(run.file0) /\ NoFreshReference
    /\ \E j \in 1..Len(run.log) :
          run.log[j].kind = "create" /\ run.log[j].call = "ok"
    /\ \E j \in 1..Len(run.log) :
          run.log[j].kind = "update" /\ run.log[j].call = "ok"

\* C5: for a record with an identifier whose issue was fetched, the dirty
\* set is the set of the fields the record holds that differ, newlines
\* normalised, from the fetched issue's; the payload holds the record's
\* value for each of them and nothing else; only an update call is made;
\* and right after a call that succeeded the remote issue has these values
\* in the dirty fields and the fetched ones in the others.
C5_DirtySetExact ==
    PushRun =>
        \A j \in 1..Len(run.log) :
            LET e   == run.log[j]
                rec == run.file0[j]
                dirty == {k \in Range(field_names) : Differs(rec, e.seen, k)}
            IN  (HasNumber(rec) /\ e.kind # "lookup_error")
                    => /\ DirtySet(e) = dirty
                       /\ \A k \in dirty : e.payload[k] = rec[k]
                       /\ e.call # "none" => e.kind = "update"
                       /\ (j = Len(run.log) /\ e.call = "ok")
                             => remote[e.number] =
                                   [k \in DOMAIN e.seen |->
                                       IF k \in dirty THEN rec[k] ELSE e.seen[k]]

\* An update that sent the title and left alone the body, which the record
\* holds with other line ends than the remote.
C5_Witness ==
    /\ PushRun
    /\ \E j \in 1..Len(run.log) :
          /\ run.log[j].kind = "update" /\ run.log[j].call = "ok"
          /\ DirtySet(run.log[j]) = {"title"}
          /\ run.file0[j]["body"].t = "str"
          /\ run.file0[j]["body"] # run.log[j].seen["body"]

\* C6: for a record with an identifier whose issue was fetched, when every
\* field the record holds equals the fetched issue's, newlines normalised,
\* the action is a no-op, no remote call is made, the run does not end in
\* an error at that record and the remote issue is what was fetched.
C6_NoChangeIsNoop ==
    PushRun =>
        \A j \in 1..Len(run.log) :
            LET e   == run.log[j]
                rec == run.file0[j]
            IN  (/\ HasNumber(rec) /\ e.kind # "lookup_error"
                 /\ \A k \in Range(field_names) : ~Differs(rec, e.seen, k))
                    => /\ e.kind = "noop"
                       /\ e.call = "none"
                       /\ DirtySet(e) = {}
                       /\ j = Len(run.log)
                             => /\ run.status \in {"running", "ok"}
                                /\ remote[e.number] = e.seen

\* A no-op for a record whose body has other line ends than the remote's.
C6_Witness ==
    /\ PushRun /\ run.status = "ok"
    /\ \E j \in 1..Len(run.log) :
          /\ run.log[j].kind = "noop"
          /\ run.file0[j]["title"].t = "str"
          /\ run.file0[j]["body"].t = "str"
          /\ run.file0[j]["body"] # run.log[j].seen["body"]

\* C7 (as claimed): in a run that is no dry run, a record with a title and
\* no identifier causes one create call, whose payload holds every field
\* the record holds and no other; after the call succeeded the record in
\* memory holds the number the remote assigned.
C7_CreateSendsPresentFields ==
    (PushRun /\ ~run.dry_run) =>
        \A j \in 1..Len(run.log) :
            LET e   == run.log[j]
                rec == run.file0[j]
            IN  (~HasNumber(rec) /\ rec["title"].t = "str")
                    => /\ e.kind = "create"
                       /\ e.call \in {"ok", "failed"}
                       /\ \A k \in Range(field_names) : e.payload[k] = rec[k]
                       /\ e.call = "ok"
                             => run.issues[j]["number"] = IntVal(e.number)

\* C8 (as claimed): when a push run has ended, the file differs from what
\* was loaded if and only if the run applied a creation and was asked to
\* rewrite the file.
C8_RewriteIffCreated ==
    (PushRun /\ ~Running)
        => ((file # run.file0) <=> (Created /\ run.update_input))

\* C9: a creation candidate without a title, and a record whose identifier
\* the remote does not know, end the run in an error at that record: its
\* entry is the last of the log, no remote call is made for it, and the
\* loop does not go on to the records after it.
C9_FatalErrorAborts ==
    PushRun =>
        /\ \A j \in 1..Len(run.log) :
              LET e   == run.log[j]
                  rec == run.file0[j]
              IN  /\ Untitled(rec)
                        => /\ e.kind \in {"usage_error", "type_error"}
                           /\ ConstructorAccepts(rec) => e.kind = "usage_error"
                  /\ (HasNumber(rec) /\ rec["number"].n > Len(remote))
                        => e.kind = "lookup_error"
                  /\ e.kind \in {"usage_error", "lookup_error", "type_error"}
                        => /\ j = Len(run.log)
                           /\ e.call = "none"
                           /\ run.status = e.kind
                           /\ run.i = j
        /\ run.status \in {"usage_error", "lookup_error", "type_error"}
              => /\ Len(run.log) = run.i
                 /\ run.log[run.i].kind = run.status
                 /\ remote = Replay(run.remote0, SubSeq(run.log, 1, run.i - 1))

\* A run that applied a creation, aborted at the next record and left a
\* record after it unhandled.
C9_Witness ==
    /\ PushRun /\ ~run.dry_run
    /\ run.status \in {"usage_error", "lookup_error"}
    /\ Len(run.log) >= 1
    /\ Len(run.file0) > Len(run.log)
    /\ ~HasNumber(run.file0[Len(run.log) + 1])
    /\ run.file0[Len(run.log) + 1]["title"].t = "str"

\* C10: a remote create or update call that fails ends the run at that
\* record; the remote is what the calls that succeeded before it made of
\* it; and each record handled has one entry in the log, so at most one
\* remote call.
C10_RemoteFailureKeepsEarlier ==
    PushRun =>
        /\ \A j \in 1..Len(run.log) :
              run.log[j].call = "failed"
                  => /\ j = Len(run.log)
                     /\ run.status = "remote_failure"
                     /\ run.i = j
        /\ run.status = "remote_failure"
              => /\ Len(run.log) = run.i
                 /\ run.log[run.i].call = "failed"
        /\ remote = Replay(run.remote0, run.log)
        /\ Len(run.log) = IF run.status \in Errors THEN run.i ELSE run.i - 1
        /\ Len(run.log) <= Len(run.file0)

\* A run whose second call failed after the first had succeeded.
C10_Witness ==
    /\ PushRun /\ run.status = "remote_failure"
    /\ Len(run.log) = 2
    /\ run.log[1].call = "ok"
    /\ remote # run.remote0

\* C11 (as claimed): a push that is no dry run and follows a push that
\* aborted does not create again a record the aborted run created, and
\* finds nothing to do for a record the aborted run updated.
C11_RerunAfterAbortSafe ==
    (/\ PushRun /\ ~run.dry_run
     /\ prev.kind = "push" /\ ~prev.dry_run /\ prev.status \in Errors)
        => \A j \in 1..Min2(Len(run.log), Len(prev.log)) :
              /\ (prev.log[j].kind = "create" /\ prev.log[j].call = "ok")
                    => run.log[j].kind # "create"
              /\ (prev.log[j].kind = "update" /\ prev.log[j].call = "ok")
                    => run.log[j].kind = "noop"

\* C12: in a push run the file and the list in memory keep their length;
\* a record that held an identifier when the file was loaded holds the
\* same one in memory and in the file; a record that held none holds none,
\* or holds the number the remote assigned to the issue the run created
\* for it.  After a pull each record holds the number of its remote issue.
C12_IdentifierImmutable ==
    /\ PushRun =>
          /\ Len(run.issues) = Len(run.file0)
          /\ Len(file) = Len(run.file0)
          /\ \A j \in 1..Len(run.file0) :
                IF HasNumber(run.file0[j])
                THEN /\ run.issues[j]["number"] = run.file0[j]["number"]
                     /\ file[j]["number"] = run.file0[j]["number"]
                ELSE /\ \/ ~HasNumber(run.issues[j])
                        \/ /\ j <= Len(run.log)
                           /\ run.log[j].kind = "create"
                           /\ run.log[j].call = "ok"
                           /\ run.issues[j]["number"] = IntVal(run.log[j].number)
                           /\ run.log[j].number = Len(run.remote0) + Cardinality(
                                 {i \in 1..j : /\ run.log[i].kind = "create"
                                               /\ run.log[i].call = "ok"})
                     /\ file[j]["number"] \in {Absent, run.issues[j]["number"]}
    /\ run.kind = "pull" =>
          \A k \in 1..Len(file) : file[k]["number"] = IntVal(k)

\* A run that rewrote a file of two records, one with an identifier of its
\* own and one that the run created.
C12_Witness ==
    /\ PushRun /\ run.status = "ok" /\ file # run.file0
    /\ \E j \in 1..Len(run.file0) : HasNumber(run.file0[j])
    /\ \E j \in 1..Len(run.file0) : ~HasNumber(run.file0[j]) /\ HasNumber(file[j])

\* C13: after a pull the remote is what it was, and the file holds one
\* record per remote issue, in the remote's order, with the issue's number,
\* title, body, assignees and labels and no other key, whatever the file
\* held before.
C13_PullIsSnapshot ==
    run.kind = "pull" =>
        /\ remote = run.remote0
        /\ Len(file) = Len(remote)
        /\ \A k \in 1..Len(remote) :
              file[k] = [number    |-> IntVal(k),
                         title     |-> remote[k].title,
                         body      |-> remote[k].body,
                         assignees |-> remote[k].assignees,
                         labels    |-> remote[k].labels,
                         milestone |-> Absent]

\* A pull over a file of two records without identifier, from a remote
\* that holds one issue, without body.
C13_Witness ==
    /\ run.kind = "pull"
    /\ Len(run.file0) = 2 /\ ~HasNumber(run.file0[1])
    /\ Len(remote) = 1 /\ remote[1].body = None
    /\ file # run.file0

\* The sequences a and b hold the same entries, each as often.
SameEntries(a, b) ==
    /\ Len(a) = Len(b)
    /\ \A x \in Range(a) \cup Range(b) :
          Cardinality({p \in 1..Len(a) : a[p] = x})
              = Cardinality({p \in 1..Len(b) : b[p] = x})

\* C15 (as claimed): on the update path, a list field of the record that
\* holds the entries of the fetched issue's list, in whatever order, is not
\* in the dirty set.
C15_ListOrderInsignificant ==
    PushRun =>
        \A j \in 1..Len(run.log) :
            run.log[j].kind \in {"update", "noop"} =>
                \A k \in {"assignees", "labels"} :
                    (/\ run.file0[j][k].t = "list"
                     /\ run.log[j].seen[k].t = "list"
                     /\ SameEntries(run.file0[j][k].s, run.log[j].seen[k].s))
                        => k \notin DirtySet(run.log[j])

\* The entry e is what the loop body does for the record rec: the update
\* path for the issue the record names, or the creation path with the
\* record's fields.
EntryMatches(e, rec) ==
    IF HasNumber(rec)
    THEN /\ e.kind \in {"lookup_error", "noop", "update"}
         /\ e.number = rec["number"].n
         /\ \A k \in Range(field_names) : e.payload[k] \in {Absent, rec[k]}
    ELSE /\ e.kind \in {"type_error", "usage_error", "create"}
         /\ e.kind = "create" =>
               \A k \in Range(field_names) :
                   e.payload[k] = IF rec[k].t = "none" THEN Absent ELSE rec[k]

\* The entry ended the run: an exception, or a remote call that failed.
Fatal(e) ==
    e.call = "failed" \/ e.kind \in {"lookup_error", "type_error", "usage_error"}

\* C18: in a push run the j-th entry is what the run did for the j-th
\* record of the file; the loop is at the record after the last entry; an
\* entry that ended the run is the last one; and the remote is what the
\* calls of the entries make of it, applied in that order.
C18_FileOrder ==
    PushRun =>
        /\ Len(run.log) <= Len(run.file0)
        /\ \A j \in 1..Len(run.log) : EntryMatches(run.log[j], run.file0[j])
        /\ \A j \in 1..(Len(run.log) - 1) : ~Fatal(run.log[j])
        /\ run.status = "running" => run.i = Len(run.log) + 1
        /\ run.status = "ok" => Len(run.log) = Len(run.file0)
        /\ run.status \in Errors =>
              /\ run.log # <<>> /\ Fatal(run.log[Len(run.log)])
              /\ run.i = Len(run.log)
        /\ remote = Replay(run.remote0, run.log)

\* A run over two different records that updated an issue for the first
\* and created an issue for the second.
C18_Witness ==
    /\ PushRun /\ run.status = "ok" /\ Len(run.log) = 2
    /\ run.log[1].kind = "update" /\ run.log[1].call = "ok"
    /\ run.log[2].kind = "create" /\ run.log[2].call = "ok"
    /\ run.file0[1]["title"] # run.file0[2]["title"]

\* C19: a push that follows a pull chooses no creation and no update, and
\* leaves the file and the remote as the pull left them.
C19_PullThenPushNoop ==
    (PushRun /\ prev.kind = "pull")
        => /\ \A j \in 1..Len(run.log) : run.log[j].kind = "noop"
           /\ run.status \in {"running", "ok"}
           /\ file = run.file0
           /\ remote = run.remote0

\* A push that ended after a pull from a remote that holds an issue
\* without body.
C19_Witness ==
    /\ PushRun /\ prev.kind = "pull" /\ run.status = "ok"
    /\ run.log # <<>>
    /\ \E k \in 1..Len(remote) : remote[k].body = None

\* C20: a run that ends with the rewrite wanted leaves a file of as many
\* records as it loaded, each with the keys and values it was loaded with,
\* but for the identifier of a record the run created, which is the number
\* the remote assigned.
C20_RewriteKeepsRecords ==
    (PushRun /\ run.status = "ok" /\ RewriteWanted(run))
        => /\ Len(file) = Len(run.file0)
           /\ \A j \in 1..Len(run.file0) :
                 /\ \A k \in Range(FileKeys) \ {"number"} :
                       file[j][k] = run.file0[j][k]
                 /\ IF run.log[j].kind = "create"
                    THEN /\ ~HasNumber(run.file0[j])
                         /\ file[j]["number"] = IntVal(run.log[j].number)
                    ELSE file[j]["number"] = run.file0[j]["number"]

\* A rewrite of a file that holds a record that names an issue and a
\* record without body.
C20_Witness ==
    /\ PushRun /\ run.status = "ok" /\ RewriteWanted(run)
    /\ file # run.file0
    /\ \E j \in 1..Len(run.file0) : HasNumber(run.file0[j])
    /\ \E j \in 1..Len(run.file0) : run.file0[j]["body"].t = "absent"

\* A line without its ending.
DropCR(line) ==
    IF line # <<>> /\ line[Len(line)] = "CR"
    THEN SubSeq(line, 1, Len(line) - 1) ELSE line

\* The lines of a string, each ended by a line feed or by a carriage
\* return and a line feed, without their endings; cur is the line read so
\* far.
RECURSIVE SplitLines(_, _)
SplitLines(cs, cur) ==
    IF cs = <<>> THEN <<cur>>
    ELSE IF Head(cs) = "LF"
         THEN <<DropCR(cur)>> \o SplitLines(Tail(cs), <<>>)
         ELSE SplitLines(Tail(cs), Append(cur, Head(cs)))

Lines(cs) == SplitLines(cs, <<>>)

\* The lines, each but the last ended by a line feed.
RECURSIVE JoinLF(_)
JoinLF(ls) ==
    IF Len(ls) = 1 THEN ls[1]
    ELSE ls[1] \o <<"LF">> \o JoinLF(Tail(ls))

\* C14: comp_newline returns, for two strings, whether they hold the same
\* lines, whatever the ending of each line, which is whether they are the
\* same string once every line ends with a line feed; for any other pair
\* of values it returns whether they are equal.  The values the caller
\* passed are what they were.
C14_EqualUpToLineEndings ==
    cmp.pc = "done" =>
        LET x == cmp.args[1]
            y == cmp.args[2]
        IN  /\ cmp.ret \in BOOLEAN
            /\ cmp.args \in CompInputs \X CompInputs
            /\ IF x.t = "str" /\ y.t = "str"
               THEN /\ cmp.ret = (Lines(x.s) = Lines(y.s))
                    /\ cmp.ret = (JoinLF(Lines(x.s)) = JoinLF(Lines(y.s)))
               ELSE cmp.ret = (x = y)

\* Two different strings of the same lines were found equal.
C14_Witness ==
    /\ cmp.pc = "done" /\ cmp.ret
    /\ cmp.args[1] = StrVal(<<"a", "CR", "LF">>)
    /\ cmp.args[2] = StrVal(<<"a", "LF">>)

\* How often the name k stands in the list q.
Count(q, k) == Cardinality({p \in 1..Len(q) : q[p] = k})

Recognized(kwargs) ==
    [k \in DOMAIN kwargs |->
        IF k \in Range(field_names) THEN kwargs[k] ELSE Absent]

\* C17 (as claimed): no update call raises, and each leaves the Issue as
\* the call with the recognised keys alone leaves it.
C17_UnknownKeysIgnored ==
    \A j \in 1..Len(tracker.calls) :
        /\ ~tracker.raised[j]
        /\ tracker.trace[j + 1]
              = update(tracker.trace[j], Recognized(tracker.calls[j]))

====
